---- MODULE Spec2Model ----
(***************************************************************************)
(* Store status checker: the per-URL classification pipeline (processURL   *)
(* = isShopifyStore -> checkURL -> checkPasswordProtection over            *)
(* axiosRetry) and the two processCSV schedulers that drive it:            *)
(*   "batch"  src/checkStores.js      fixed batches, Promise.all per batch *)
(*   "gate"   src/unnamed/part_000    p-limit admission gate               *)
(* Every action is one handler run from a wake-up (row delivered, HTTP     *)
(* response or error delivered, backoff timer fired) to the next await.    *)
(***************************************************************************)
EXTENDS Integers, Sequences, FiniteSets, TLC

VARIABLES
    pipeline,     \* "batch" (checkStores.js) or "gate" (part_000)
    limit,        \* concurrencyLimit of the run
    netMode,      \* "any": each request may end any way; "fixed": by FixedNet
    rows,         \* the rows the input stream will deliver, in order
    nread,        \* rows delivered to the for-await loop so far
    mainPc,       \* position of processCSV
    batch,        \* checkStores.js: the batch array
    awaiting,     \* task ids under the Promise.all being awaited
    results,      \* the results array
    queue,        \* p-limit: queued task ids
    activeCount,  \* p-limit: activeCount
    tasks,        \* one entry per processURL promise chain created so far
    finalResults, \* the array handed to writeCSV
    extraColumns, \* part_000: the Set extraColumns, in insertion order
    report        \* what writeCSV wrote to the output file

vars == <<pipeline, limit, netMode, rows, nread, mainPc, batch, awaiting,
          results, queue, activeCount, tasks, finalResults, extraColumns, report>>

(***************************************************************************)
(* Bounds of the model.                                                    *)
(***************************************************************************)
\* Longest input file explored.
MaxRows == 3
\* concurrencyLimit of checkStores.js (10 in the source), scaled down.
BatchLimit == 2
\* concurrencyLimit of part_000 (20 in the source), scaled down.
GateLimit == 2

(***************************************************************************)
(* JavaScript values and strings.  A string is a sequence of tokens; the   *)
(* string tests of the code are computed on the tokens.                    *)
(***************************************************************************)
Str(s) == [type |-> "string", val |-> s]
Bool(b) == [type |-> "boolean", val |-> b]
Undefined == [type |-> "undefined"]

\* Truthiness of a value: false, '' and undefined are falsy.
Truthy(v) ==
    CASE v.type = "boolean" -> v.val
      [] v.type = "string"  -> v.val # <<>>
      [] OTHER              -> FALSE

\* a || b
Or(a, b) == IF Truthy(a) THEN a ELSE b

\* The text of a value inside a template literal.
Text(v) ==
    CASE v.type = "boolean" -> IF v.val THEN <<"true">> ELSE <<"false">>
      [] v.type = "string"  -> v.val
      [] OTHER              -> <<"undefined">>

\* a === b on values
Same(a, b) == a.type = b.type /\ (a.type = "undefined" \/ a.val = b.val)

\* Substrings of each token that the code searches for.
Fragments(tok) ==
    CASE tok = ".myshopify.com" -> {".myshopify.com", "shopify.com"}
      [] tok = "shopify.com"    -> {"shopify.com"}
      [] OTHER                  -> {tok}

startsWith(s, prefix) == Len(s) >= 1 /\ s[1] = prefix
endsWith(s, suffix) == Len(s) >= 1 /\ s[Len(s)] = suffix
includes(s, needle) == \E k \in 1..Len(s) : needle \in Fragments(s[k])

(***************************************************************************)
(* HTTP: what one axios.get can deliver.                                   *)
(*   kind      "ok"        resolved (status passed validateStatus)         *)
(*             "errResp"   rejected, error.response present                *)
(*             "errNoResp" rejected, no response (timeout, DNS, bad URL)   *)
(*   poweredBy headers['powered-by'] includes 'Shopify'                    *)
(*   meta      body has meta[name="shopify-checkout-api-token"]            *)
(*   script    body has script[src*="shopify"]                             *)
(*   pwInput   body has input[type="password"]                             *)
(*   final     where request.res.responseUrl points:                       *)
(*             "same" the requested URL, "password" a URL ending in        *)
(*             /password, "other" another URL, "absent" not set            *)
(***************************************************************************)
Resp(kind, status, poweredBy, meta, script, pwInput, final) ==
    [kind |-> kind, status |-> status, poweredBy |-> poweredBy, meta |-> meta,
     script |-> script, pwInput |-> pwInput, final |-> final]

NoResponse == Resp("errNoResp", 0, FALSE, FALSE, FALSE, FALSE, "absent")

\* Outcomes of a GET under axios defaults (validateStatus: 2xx): a 200 with
\* each combination of platform signals the code tells apart, a 2xx other
\* than 200, an error status with or without the platform header, no response.
RetryOutcomes ==
    {Resp("ok", 200, pb, b[1], b[2], FALSE, "same") :
        pb \in BOOLEAN,
        b \in {<<FALSE, FALSE>>, <<TRUE, FALSE>>, <<FALSE, TRUE>>}}
    \cup {Resp("ok", 204, FALSE, FALSE, FALSE, FALSE, "same")}
    \cup {Resp("errResp", st, pb, FALSE, FALSE, FALSE, "same") :
        st \in {404, 500}, pb \in BOOLEAN}
    \cup {NoResponse}

\* Outcomes of the GET of checkPasswordProtection (validateStatus: < 400).
GateOutcomes ==
    {Resp("ok", 200, FALSE, FALSE, FALSE, pw, f) :
        pw \in BOOLEAN, f \in {"same", "password", "other", "absent"}}
    \cup {Resp("errResp", st, FALSE, FALSE, FALSE, FALSE, "same") :
        st \in {302, 404, 500}}
    \cup {NoResponse}

(***************************************************************************)
(* axiosRetry(url, options, retries = 2, backoff = 3000).                  *)
(* A call record is the state of one axiosRetry (or plain axios.get) call: *)
(*   issued    GETs issued so far                                          *)
(*   attempts  the outcomes delivered so far, in order                     *)
(*   waits     the setTimeout delays slept so far, in order                *)
(*   state     "pending" a GET is in flight, "sleeping" in the backoff,    *)
(*             "returned" value = <<response>>, "threw" value = <<error>>, *)
(*             "fellThrough" the for loop ended without return or throw    *)
(***************************************************************************)
\* One attempt more than the default.
retries_OneMore == 2 + 1

retries == 2
backoff == 3000

NewCall(fn) ==
    [fn |-> fn, issued |-> 1, attempts |-> <<>>, waits |-> <<>>,
     state |-> "pending", value |-> <<>>]

\* for (let i = 0; i < retries; i++)
LoopCond(i) == i < retries

\* if (i < retries - 1) ... else throw error
RetryAgain(i) == i < retries - 1

\* The first error is kept and thrown instead of the last.
CaughtError_First(attempts) == attempts[1]

\* The error bound by catch (error) in the iteration that throws.
CaughtError(attempts) == attempts[Len(attempts)]

\* The delay counted from the loop index without the + 1.
BackoffDelay_ZeroBased(i) == backoff * i

\* await new Promise(resolve => setTimeout(resolve, backoff * (i + 1)))
BackoffDelay(i) == backoff * (i + 1)

\* The GET of iteration i = Len(call.attempts) settles with outcome o.
AxiosRetrySettle(call, o) ==
    LET i == Len(call.attempts)
        att == Append(call.attempts, o)
    IN  IF o.kind = "ok"
        THEN [call EXCEPT !.attempts = att, !.state = "returned", !.value = <<o>>]
        ELSE IF RetryAgain(i)
        THEN [call EXCEPT !.attempts = att, !.state = "sleeping",
                          !.waits = Append(@, BackoffDelay(i))]
        ELSE [call EXCEPT !.attempts = att, !.state = "threw",
                          !.value = <<CaughtError(att)>>]

\* The backoff timer fires: i++, then the loop test.
AxiosRetryWake(call) ==
    IF LoopCond(Len(call.attempts))
    THEN [call EXCEPT !.issued = @ + 1, !.state = "pending"]
    ELSE [call EXCEPT !.state = "fellThrough"]

\* checkPasswordProtection calls axios.get directly: one attempt, no retry.
AxiosGetSettle(call, o) ==
    [call EXCEPT !.attempts = Append(@, o),
                 !.state = IF o.kind = "ok" THEN "returned" ELSE "threw",
                 !.value = <<o>>]

(***************************************************************************)
(* The three stages, each as the value its try/catch returns once its call *)
(* has returned or thrown.                                                 *)
(***************************************************************************)
HasMarker(url) == includes(url, ".myshopify.com") \/ includes(url, "shopify.com")

\* The catch block answers true for every error that carries a response.
isShopifyStore_AnyErrorResponse(url, call) ==
    IF call.state = "returned"
    THEN LET response == call.value[1]
         IN  HasMarker(url) \/ response.poweredBy \/ response.meta \/ response.script
    ELSE call.state = "threw" /\ call.value[1].kind = "errResp"

isShopifyStore(url, call) ==
    IF call.state = "returned"
    THEN LET response == call.value[1]
         IN  IF HasMarker(url) THEN TRUE
             ELSE IF response.poweredBy THEN TRUE
             ELSE response.meta \/ response.script
    ELSE IF call.state = "threw"
    THEN LET error == call.value[1]
         IN  IF error.kind = "errResp"
             THEN IF error.poweredBy THEN TRUE
                  ELSE IF error.status = 404 THEN FALSE
                  ELSE FALSE
             ELSE FALSE
    ELSE FALSE  \* response undefined: TypeError inside the try, no error.response

checkURL(call) ==
    IF call.state = "returned"
    THEN call.value[1].status = 200
    ELSE FALSE

\* response.request.res.responseUrl || response.config.url
ResponseUrl(url, response) ==
    CASE response.final = "same"     -> url
      [] response.final = "password" -> <<"https://", "gate", "/password">>
      [] response.final = "other"    -> <<"https://", "elsewhere">>
      [] OTHER                       -> url

checkPasswordProtection(url, call) ==
    IF call.state = "returned"
    THEN LET response == call.value[1]
             responseUrl == ResponseUrl(url, response)
         IN  IF responseUrl = <<>> THEN FALSE
             ELSE IF endsWith(responseUrl, "/password") THEN response.pwInput
             ELSE FALSE
    ELSE FALSE

(***************************************************************************)
(* processURL.  A task is one processURL(url).then(...) promise chain:     *)
(*   pc     "queued" (p-limit only), "get", "backoff", "resolved",         *)
(*          "rejected"                                                     *)
(*   arg    the value passed as url; url: the local after normalisation    *)
(*   calls  the calls made so far, the last one being the current one      *)
(*   row, closure  the row it was created for and what .then captured      *)
(*   value  <<>> or <<the Record the chain resolved to>>                   *)
(***************************************************************************)
NewTask(row, arg, closure) ==
    [pc |-> "queued", row |-> row, arg |-> arg, closure |-> closure, url |-> <<>>,
     calls |-> <<>>, isShopify |-> FALSE, isActive |-> FALSE,
     isPasswordProtected |-> FALSE, value |-> <<>>]

\* if (!url.startsWith('http://') && !url.startsWith('https://')) url = 'http://' + url
Normalise(url) ==
    IF ~startsWith(url, "http://") /\ ~startsWith(url, "https://")
    THEN <<"http://">> \o url
    ELSE url

\* url.startsWith on a value that is no string throws a TypeError.
ThrowsOnEntry(arg) == arg.type # "string"

\* return { isShopify, isActive, isPasswordProtected }
ProbeResult(task) ==
    [isShopify |-> Bool(task.isShopify), isActive |-> Bool(task.isActive),
     isPasswordProtected |-> Bool(task.isPasswordProtected)]

\* .then(result => ({clientId, url, ...result}))           checkStores.js
\* .then(result => ({recordId, url, ...result, ...data}))  part_000
Merge(a, b) ==
    [k \in DOMAIN a \cup DOMAIN b |-> IF k \in DOMAIN b THEN b[k] ELSE a[k]]

ThenRecord(task) ==
    IF "data" \in DOMAIN task.closure
    THEN Merge(Merge([recordId |-> task.closure.recordId, url |-> task.closure.url],
                     ProbeResult(task)),
               task.closure.data)
    ELSE Merge([clientId |-> task.closure.clientId, url |-> task.closure.url],
               ProbeResult(task))

Resolve(task) == [task EXCEPT !.pc = "resolved", !.value = <<ThenRecord(task)>>]

\* processURL is entered: normalise, call isShopifyStore, which issues GET 1.
Enter(task) ==
    IF ThrowsOnEntry(task.arg)
    THEN [task EXCEPT !.pc = "rejected"]
    ELSE [task EXCEPT !.pc = "get", !.url = Normalise(task.arg.val),
                      !.calls = <<NewCall("isShopifyStore")>>]

CurrentCall(task) == task.calls[Len(task.calls)]

\* The liveness stage runs whatever stage 1 found.
EntersLiveness_Always(task) == TRUE

\* if (isShopify) { isActive = await checkURL(url); ... }
EntersLiveness(task) == task.isShopify

\* The password stage runs for every Shopify store, active or not.
EntersPasswordCheck_Always(task) == TRUE

\* if (isActive) { isPasswordProtected = await checkPasswordProtection(url); }
EntersPasswordCheck(task) == task.isActive

\* The current call has returned or thrown: run processURL to its next await.
Resume(task) ==
    LET call == CurrentCall(task)
    IN  IF call.fn = "isShopifyStore"
        THEN LET t1 == [task EXCEPT !.isShopify = isShopifyStore(task.url, call)]
             IN  IF EntersLiveness(t1)
                 THEN [t1 EXCEPT !.pc = "get", !.calls = Append(@, NewCall("checkURL"))]
                 ELSE Resolve(t1)
        ELSE IF call.fn = "checkURL"
        THEN LET t2 == [task EXCEPT !.isActive = checkURL(call)]
             IN  IF EntersPasswordCheck(t2)
                 THEN [t2 EXCEPT !.pc = "get",
                                 !.calls = Append(@, NewCall("checkPasswordProtection"))]
                 ELSE Resolve(t2)
        ELSE Resolve([task EXCEPT
                 !.isPasswordProtected = checkPasswordProtection(task.url, call)])

SetCall(task, call) == [task EXCEPT !.calls[Len(task.calls)] = call]

\* A handler of the task ran and left its current call in state call.
Advance(task, call) ==
    LET t0 == SetCall(task, call)
    IN  IF call.state = "pending" THEN [t0 EXCEPT !.pc = "get"]
        ELSE IF call.state = "sleeping" THEN [t0 EXCEPT !.pc = "backoff"]
        ELSE Resume(t0)

(***************************************************************************)
(* The network.  In mode "any" a GET may end in any outcome its options    *)
(* allow; in mode "fixed" the outcome is FixedNet, a function of the URL   *)
(* and of the ordinal of the GET within the classification.  A URL with no *)
(* host ('http://') never gets a response.                                 *)
(***************************************************************************)
Issued(task) ==
    LET n == Len(task.calls)
    IN  (IF n >= 1 THEN task.calls[1].issued ELSE 0)
      + (IF n >= 2 THEN task.calls[2].issued ELSE 0)
      + (IF n >= 3 THEN task.calls[3].issued ELSE 0)

Host(url) == IF Len(url) >= 2 THEN url[2] ELSE ""

FixedNet(url, n) ==
    CASE Host(url) = "shop" ->
           (CASE n = 1 -> Resp("ok", 200, FALSE, TRUE, FALSE, FALSE, "same")
              [] n = 2 -> Resp("ok", 200, FALSE, TRUE, FALSE, FALSE, "same")
              [] OTHER -> Resp("ok", 200, FALSE, FALSE, FALSE, TRUE, "password"))
      [] Host(url) = "flaky" ->
           (CASE n = 1 -> NoResponse
              [] n = 2 -> Resp("ok", 200, TRUE, FALSE, FALSE, FALSE, "same")
              [] n = 3 -> Resp("errResp", 500, FALSE, FALSE, FALSE, FALSE, "same")
              [] n = 4 -> Resp("ok", 200, FALSE, FALSE, FALSE, FALSE, "same")
              [] OTHER -> Resp("ok", 200, FALSE, FALSE, FALSE, FALSE, "same"))
      [] OTHER -> NoResponse

RECURSIVE SumIssued(_, _)
SumIssued(ts, n) == IF n = 0 THEN 0 ELSE Issued(ts[n]) + SumIssued(ts, n - 1)

\* The request ordinal is a counter shared by all classifications.
Answers_SharedCounter(task) ==
    IF Len(task.url) < 2 THEN {NoResponse}
    ELSE IF netMode = "fixed"
    THEN {FixedNet(task.url, SumIssued(SelectSeq(tasks, LAMBDA x : x.pc \in {"get", "backoff"}),
                                      Len(SelectSeq(tasks, LAMBDA x : x.pc \in {"get", "backoff"}))))}
    ELSE IF CurrentCall(task).fn = "checkPasswordProtection" THEN GateOutcomes
    ELSE RetryOutcomes

Answers(task) ==
    IF Len(task.url) < 2 THEN {NoResponse}
    ELSE IF netMode = "fixed" THEN {FixedNet(task.url, Issued(task))}
    ELSE IF CurrentCall(task).fn = "checkPasswordProtection" THEN GateOutcomes
    ELSE RetryOutcomes

(***************************************************************************)
(* Input rows (csv-parser objects).  A cell missing from the row is a key  *)
(* missing from the object.                                                *)
(***************************************************************************)
Get(data, key) == IF key \in DOMAIN data THEN data[key] ELSE Undefined

UrlKey(p) == IF p = "batch" THEN "URL" ELSE "Website URL"
IdKey(p) == IF p = "batch" THEN "ClientId" ELSE "Record ID"

MakeRow(p, i, u) ==
    IF u = Undefined
    THEN (IdKey(p) :> Str(<<ToString(i)>>))
    ELSE (IdKey(p) :> Str(<<ToString(i)>>)) @@ (UrlKey(p) :> u)

MakeRows(p, us) == [i \in 1..Len(us) |-> MakeRow(p, i, us[i])]

\* URL cells of the scheduler runs; Undefined: the cell is missing.
SchedulerUrls ==
    {Str(<<"shop">>), Str(<<"http://", "flaky">>), Str(<<"down">>), Undefined}

\* URL cells of the single-classification runs.
ClassifyUrls ==
    {Undefined, Str(<<>>), Str(<<"host">>),
     Str(<<"https://", "host", ".myshopify.com">>),
     Str(<<"http://", "host", "/password">>)}

\* The columns of the input files, in header order; Object.keys(data) and
\* Object.values(data) follow it.
ColumnOrder ==
    <<"ClientId", "URL", "Record ID", "Website URL", "Notes", "Tags", "isActive">>

Keys(data) == SelectSeq(ColumnOrder, LAMBDA k : k \in DOMAIN data)

\* The row object of line number i with the given cells under the header
\* <<id column, URL column>> \o extra; a short line leaves the last keys
\* out.  An id cell "#" stands for the line number.
LineRow(p, extra, i, cells) ==
    LET header == <<IdKey(p), UrlKey(p)>> \o extra
    IN  [k \in {header[j] : j \in 1..Len(cells)} |->
            LET j == CHOOSE j \in 1..Len(cells) : header[j] = k
            IN  IF cells[j] = "#" THEN Str(<<ToString(i)>>)
                ELSE IF cells[j] = "" THEN Str(<<>>)
                ELSE Str(<<cells[j]>>)]

\* Input files of the report runs: one with two passthrough columns, one
\* with a passthrough column named as a result column.  Their lines: a full
\* line, a line with an empty id cell, a line that stops before the URL.
ReportFiles ==
    {[extra |-> <<"Notes", "Tags">>,
      lines |-> {<<"#", "shop", "n", "t">>, <<"", "shop">>, <<"#">>}],
     [extra |-> <<"isActive">>,
      lines |-> {<<"#", "down", "yes">>, <<"", "shop">>, <<"#">>}]}

SeqsUpTo(S, n) == UNION {[1..k -> S] : k \in 0..n}

ConcurrencyLimit(p) == IF p = "batch" THEN BatchLimit ELSE GateLimit

(***************************************************************************)
(* Promise.all over task ids.                                              *)
(***************************************************************************)
AnyRejected(ts, ids) == \E k \in 1..Len(ids) : ts[ids[k]].pc = "rejected"
AllResolved(ts, ids) == \A k \in 1..Len(ids) : ts[ids[k]].pc = "resolved"
\* The values are delivered last promise first.
Values_LastFirst(ts, ids) == [k \in 1..Len(ids) |-> ts[ids[Len(ids) + 1 - k]].value[1]]

\* Promise.all fulfils with the values in the order of the promises.
Values(ts, ids) == [k \in 1..Len(ids) |-> ts[ids[k]].value[1]]

(***************************************************************************)
(* p-limit.  run(): activeCount++, call fn, and when its promise settles   *)
(* next(): activeCount--, dequeue and run.  A fn whose promise is already  *)
(* rejected gives its slot back before any I/O event.                      *)
(***************************************************************************)
RECURSIVE PLimitDrain(_, _, _)
PLimitDrain(q, active, ts) ==
    IF active < limit /\ q # <<>>
    THEN LET id == Head(q)
             started == Enter(ts[id])
         IN  PLimitDrain(Tail(q),
                         IF started.pc = "rejected" THEN active ELSE active + 1,
                         [ts EXCEPT ![id] = started])
    ELSE [queue |-> q, activeCount |-> active, tasks |-> ts]

(***************************************************************************)
(* processCSV of checkStores.js.                                           *)
(***************************************************************************)
\* Off by one: the batch is run only once it exceeds the limit.
BatchFull_OffByOne(b) == Len(b) > limit

\* batch.length >= concurrencyLimit
BatchFull(b) == Len(b) >= limit

\* The batch is never emptied.
ClearBatch_Forgotten(b) == b

\* Only the oldest entry is removed: batch.shift().
ClearBatch_ShiftOne(b) == Tail(b)

\* batch.length = 0
ClearBatch(b) == <<>>

\* batch.map(({url, clientId}) => processURL(url).then(...)): every task of
\* the batch is entered, in order, before anything else runs.
StartBatch(b) ==
    [k \in 1..Len(b) |->
        Enter(NewTask(b[k].row, b[k].url,
                      [clientId |-> b[k].clientId, url |-> b[k].url]))]

Ids(from, n) == [k \in 1..n |-> from + k]

\* A row is delivered to the for-await loop.
ReadRowBatch ==
    /\ pipeline = "batch" /\ mainPc = "reading" /\ nread < Len(rows)
    /\ LET data == rows[nread + 1]
           b == Append(batch, [url |-> Get(data, "URL"),
                               clientId |-> Get(data, "ClientId"),
                               row |-> nread + 1])
           started == StartBatch(b)
       IN  /\ nread' = nread + 1
           /\ batch' = b
           /\ IF BatchFull(b)
              THEN /\ tasks' = tasks \o started
                   /\ awaiting' = Ids(Len(tasks), Len(b))
                   /\ mainPc' = IF AnyRejected(tasks', awaiting')
                                THEN "aborted" ELSE "awaitBatch"
              ELSE UNCHANGED <<tasks, awaiting, mainPc>>
    /\ UNCHANGED <<pipeline, limit, netMode, rows, extraColumns, report,
                   results, queue, activeCount,
                   finalResults>>

\* The stream ends: the last, partial batch, or writeCSV at once.
EndOfStreamBatch ==
    /\ pipeline = "batch" /\ mainPc = "reading" /\ nread = Len(rows)
    /\ IF Len(batch) > 0
       THEN /\ tasks' = tasks \o StartBatch(batch)
            /\ awaiting' = Ids(Len(tasks), Len(batch))
            /\ mainPc' = IF AnyRejected(tasks', awaiting')
                         THEN "aborted" ELSE "awaitFinalBatch"
            /\ UNCHANGED finalResults
       ELSE /\ finalResults' = results
            /\ mainPc' = "writeCSV"
            /\ UNCHANGED <<tasks, awaiting>>
    /\ UNCHANGED <<pipeline, limit, netMode, rows, extraColumns, report,
                   nread, batch, results, queue,
                   activeCount>>

\* Promise.all of the batch fulfils: results.push(...batchResults).
BatchResolves ==
    /\ pipeline = "batch" /\ mainPc \in {"awaitBatch", "awaitFinalBatch"}
    /\ AllResolved(tasks, awaiting)
    /\ results' = results \o Values(tasks, awaiting)
    /\ awaiting' = <<>>
    /\ IF mainPc = "awaitBatch"
       THEN /\ batch' = ClearBatch(batch)
            /\ mainPc' = "reading"
            /\ UNCHANGED finalResults
       ELSE /\ finalResults' = results'
            /\ mainPc' = "writeCSV"
            /\ UNCHANGED batch
    /\ UNCHANGED <<pipeline, limit, netMode, rows, extraColumns, report,
                   nread, queue, activeCount, tasks>>

(***************************************************************************)
(* processCSV of part_000.                                                 *)
(***************************************************************************)
\* Set.prototype.add(value) takes one argument: of the spread keys only the
\* first is added, and undefined when there is none.
FirstArgument(args) == IF args = <<>> THEN "undefined" ELSE args[1]

SetAdd(set, v) ==
    IF \E j \in 1..Len(set) : set[j] = v THEN set ELSE Append(set, v)

\* Object.keys(data).filter(key => key !== 'Website URL' && key !== 'Record ID')
ExtraKeys(data) ==
    SelectSeq(Keys(data), LAMBDA k : k # "Website URL" /\ k # "Record ID")

\* A row is delivered: results.push(limit(() => processURL(url).then(...))).
ReadRowGate ==
    /\ pipeline = "gate" /\ mainPc = "reading" /\ nread < Len(rows)
    /\ LET data == rows[nread + 1]
           url == Get(data, "Website URL")
           recordId == Get(data, "Record ID")
           id == Len(tasks) + 1
           task == NewTask(nread + 1, url,
                           [recordId |-> recordId, url |-> url, data |-> data])
           after == PLimitDrain(Append(queue, id), activeCount, Append(tasks, task))
       IN  /\ nread' = nread + 1
           /\ results' = Append(results, id)
           /\ queue' = after.queue
           /\ activeCount' = after.activeCount
           /\ tasks' = after.tasks
           /\ extraColumns' = SetAdd(extraColumns, FirstArgument(ExtraKeys(data)))
    /\ UNCHANGED <<pipeline, limit, netMode, rows, report, mainPc, batch, awaiting,
                   finalResults>>

\* The stream ends: await Promise.all(results).
EndOfStreamGate ==
    /\ pipeline = "gate" /\ mainPc = "reading" /\ nread = Len(rows)
    /\ mainPc' = IF AnyRejected(tasks, results) THEN "aborted" ELSE "promiseAll"
    /\ UNCHANGED <<pipeline, limit, netMode, rows, extraColumns, report,
                   nread, batch, awaiting, results,
                   queue, activeCount, tasks, finalResults>>

\* Promise.all(results) fulfils: writeCSV(finalResults, ...) is called.
GateResolves ==
    /\ pipeline = "gate" /\ mainPc = "promiseAll"
    /\ AllResolved(tasks, results)
    /\ finalResults' = Values(tasks, results)
    /\ mainPc' = "writeCSV"
    /\ UNCHANGED <<pipeline, limit, netMode, rows, extraColumns, report,
                   nread, batch, awaiting, results,
                   queue, activeCount, tasks>>

\* A limit() promise rejected while the loop is still reading has no handler
\* yet: whether the process survives depends on the runtime.
UnhandledRejection ==
    /\ pipeline = "gate" /\ mainPc = "reading"
    /\ AnyRejected(tasks, results)
    /\ mainPc' = "crashed"
    /\ UNCHANGED <<pipeline, limit, netMode, rows, extraColumns, report,
                   nread, batch, awaiting, results,
                   queue, activeCount, tasks, finalResults>>

\* The metrics block of writeCSV.
CountOf(data, field) ==
    Cardinality({j \in 1..Len(data) : Truthy(Get(data[j], field))})

Metrics(data) ==
    [totalStores |-> Len(data),
     shopifyStores |-> CountOf(data, "isShopify"),
     activeStores |-> CountOf(data, "isActive"),
     passwordProtectedStores |-> CountOf(data, "isPasswordProtected"),
     inactiveStores |-> Len(data) - CountOf(data, "isActive")]

ExpectedColumns ==
    <<"Create Date", "Number of Associated Contacts", "City", "Country/Region",
      "Last Activity Date", "Company owner">>

\* Header and lines of the output, a line being its cells in header order.
\* In the header "undefined" stands for an undefined entry of extraColumns.
Headers(extra) ==
    IF pipeline = "batch"
    THEN <<"ClientId", "URL", "isShopify", "isActive", "isPasswordProtected">>
    ELSE <<"Record ID", "Website URL", "isShopify", "isActive",
           "isPasswordProtected">> \o ExpectedColumns \o extra

OutputLine(row, extra) ==
    IF pipeline = "batch"
    THEN <<Text(Or(Get(row, "ClientId"), Get(row, "clientId"))),
           Text(Or(Get(row, "URL"), Get(row, "url"))),
           Text(Get(row, "isShopify")), Text(Get(row, "isActive")),
           Text(Get(row, "isPasswordProtected"))>>
    ELSE <<Text(Or(Get(row, "Record ID"), Get(row, "recordId"))),
           Text(Or(Get(row, "Website URL"), Get(row, "url"))),
           Text(Get(row, "isShopify")), Text(Get(row, "isActive")),
           Text(Get(row, "isPasswordProtected"))>>
         \o [j \in 1..Len(ExpectedColumns) |->
                Text(Or(Get(row, ExpectedColumns[j]), Str(<<>>)))]
         \o [j \in 1..Len(extra) |-> Text(Or(Get(row, extra[j]), Str(<<>>)))]

\* part_000 reads the input again and copies the rows that lack a URL or an
\* id: Object.values(data).join(',').
ExtraRows(rs) ==
    IF pipeline = "batch" THEN <<>>
    ELSE LET lacking == SelectSeq(rs, LAMBDA data :
                            ~Truthy(Get(data, "Website URL"))
                            \/ ~Truthy(Get(data, "Record ID")))
         IN  [j \in 1..Len(lacking) |->
                [c \in 1..Len(Keys(lacking[j])) |->
                    Text(lacking[j][Keys(lacking[j])[c]])]]

NoReport == [headers |-> <<>>, lines |-> <<>>, extraRows |-> <<>>,
             metrics |-> Metrics(<<>>)]

\* writeCSV runs to the end and processCSV returns.
WriteCSV ==
    /\ mainPc = "writeCSV"
    /\ mainPc' = "done"
    /\ report' = [headers |-> Headers(extraColumns),
                  lines |-> [j \in 1..Len(finalResults) |->
                                OutputLine(finalResults[j], extraColumns)],
                  extraRows |-> ExtraRows(rows),
                  metrics |-> Metrics(finalResults)]
    /\ UNCHANGED <<pipeline, limit, netMode, rows, extraColumns, nread, batch,
                   awaiting, results, queue, activeCount, tasks, finalResults>>

(***************************************************************************)
(* Steps of a classification.                                              *)
(***************************************************************************)
\* Task t's handler left it as task: the scheduler's share of the step.
Settle(t, task) ==
    LET ts == [tasks EXCEPT ![t] = task]
        finished == task.pc \in {"resolved", "rejected"}
        after == IF pipeline = "gate" /\ finished
                 THEN PLimitDrain(queue, activeCount - 1, ts)
                 ELSE [queue |-> queue, activeCount |-> activeCount, tasks |-> ts]
    IN  /\ tasks' = after.tasks
        /\ queue' = after.queue
        /\ activeCount' = after.activeCount
        /\ mainPc' = IF mainPc = "promiseAll" /\ AnyRejected(after.tasks, results)
                     THEN "aborted" ELSE mainPc
        /\ UNCHANGED <<pipeline, limit, netMode, rows, extraColumns, report,
                       nread, batch, awaiting,
                       results, finalResults>>

Running(t) == t \in 1..Len(tasks) /\ mainPc # "crashed"

\* The GET in flight for an axiosRetry call of task t settles.
AxiosRetryGetSettles(t) ==
    /\ Running(t) /\ tasks[t].pc = "get"
    /\ CurrentCall(tasks[t]).fn \in {"isShopifyStore", "checkURL"}
    /\ \E o \in Answers(tasks[t]) :
          Settle(t, Advance(tasks[t], AxiosRetrySettle(CurrentCall(tasks[t]), o)))

\* The backoff timer of task t fires.
BackoffElapses(t) ==
    /\ Running(t) /\ tasks[t].pc = "backoff"
    /\ Settle(t, Advance(tasks[t], AxiosRetryWake(CurrentCall(tasks[t]))))

\* The GET of checkPasswordProtection of task t settles.
PasswordGetSettles(t) ==
    /\ Running(t) /\ tasks[t].pc = "get"
    /\ CurrentCall(tasks[t]).fn = "checkPasswordProtection"
    /\ \E o \in Answers(tasks[t]) :
          Settle(t, Advance(tasks[t], AxiosGetSettle(CurrentCall(tasks[t]), o)))

(***************************************************************************)
(* Specifications.                                                         *)
(***************************************************************************)
InitRun(p, n, mode, rs) ==
    /\ pipeline = p /\ limit = n /\ netMode = mode /\ rows = rs
    /\ nread = 0 /\ mainPc = "reading" /\ batch = <<>> /\ awaiting = <<>>
    /\ results = <<>> /\ queue = <<>> /\ activeCount = 0 /\ tasks = <<>>
    /\ finalResults = <<>> /\ extraColumns = <<>> /\ report = NoReport

\* Whole runs of either pipeline, with limit 1 or the pipeline's own limit,
\* over every input file of at most MaxRows rows, on the fixed network.
Init ==
    \E p \in {"batch", "gate"} :
    \E n \in {1, ConcurrencyLimit(p)} :
    \E us \in SeqsUpTo(SchedulerUrls, MaxRows) :
        InitRun(p, n, "fixed", MakeRows(p, us))

TaskIds == 1..(2 * MaxRows + 2)

Next ==
    \/ ReadRowBatch
    \/ EndOfStreamBatch
    \/ BatchResolves
    \/ ReadRowGate
    \/ EndOfStreamGate
    \/ GateResolves
    \/ UnhandledRejection
    \/ WriteCSV
    \/ \E t \in TaskIds : AxiosRetryGetSettles(t)
    \/ \E t \in TaskIds : BackoffElapses(t)
    \/ \E t \in TaskIds : PasswordGetSettles(t)

Spec == Init /\ [][Next]_vars

\* One classification on an arbitrary network: a one-row file whose row is
\* classified at once (limit 1), followed up to the settling of its promise.
InitClassify ==
    \E u \in ClassifyUrls : InitRun("batch", 1, "any", MakeRows("batch", <<u>>))

NextClassify ==
    \/ ReadRowBatch
    \/ \E t \in TaskIds : AxiosRetryGetSettles(t)
    \/ \E t \in TaskIds : BackoffElapses(t)
    \/ \E t \in TaskIds : PasswordGetSettles(t)

SpecClassify == InitClassify /\ [][NextClassify]_vars

\* Whole runs of either pipeline at its own limit over the report files of
\* at most MaxRows lines, on the fixed network.
InitReport ==
    \E p \in {"batch", "gate"} :
    \E f \in ReportFiles :
    \E ls \in SeqsUpTo(f.lines, MaxRows) :
        InitRun(p, ConcurrencyLimit(p), "fixed",
                [i \in 1..Len(ls) |-> LineRow(p, f.extra, i, ls[i])])

SpecReport == InitReport /\ [][Next]_vars

\* Runs in which every enabled handler eventually runs: the event loop
\* delivers every settled GET, every expired timer and every row.
FairSpec == Spec /\ WF_vars(Next)

(***************************************************************************)
(* Vocabulary of the properties.                                           *)
(***************************************************************************)
Created == 1..Len(tasks)
InFlight == {t \in Created : tasks[t].pc \in {"get", "backoff"}}
Finished(t) == tasks[t].pc \in {"resolved", "rejected"}
CallsOf(t, fn) == {k \in 1..Len(tasks[t].calls) : tasks[t].calls[k].fn = fn}
RetryCalls(t) == CallsOf(t, "isShopifyStore") \cup CallsOf(t, "checkURL")
Failed(o) == o.kind # "ok"
HandedToWriteCSV == mainPc \in {"writeCSV", "done"}
RecordIdOf(rec) == IF "clientId" \in DOMAIN rec THEN rec.clientId ELSE rec.recordId
ProbeOf(rec) ==
    [isShopify |-> rec.isShopify, isActive |-> rec.isActive,
     isPasswordProtected |-> rec.isPasswordProtected]

(***************************************************************************)
(* C1.  At no time are more than concurrencyLimit classifications started  *)
(* and not yet completed, in either pipeline, whatever the number of rows  *)
(* and the order in which the requests settle.                             *)
(***************************************************************************)
C1_InFlightAtMostLimit == Cardinality(InFlight) <= limit

\* The limit is reached while more work is waiting behind it.
C1_Witness ==
    /\ limit >= 2
    /\ Cardinality(InFlight) = limit
    /\ \/ pipeline = "gate" /\ queue # <<>>
       \/ pipeline = "batch" /\ nread < Len(rows)

(***************************************************************************)
(* C2.  When writeCSV is called, the array it is given holds exactly one   *)
(* Record for every input row, the last partial batch included, and that   *)
(* Record carries the identifier and the URL cell of the row and the       *)
(* ProbeResult of the classification run for that row.                     *)
(***************************************************************************)
RecordsOfRow(i) ==
    {j \in 1..Len(finalResults) :
        \E t \in Created : /\ tasks[t].row = i
                           /\ tasks[t].pc = "resolved"
                           /\ finalResults[j] = tasks[t].value[1]
                           /\ ProbeOf(finalResults[j]) = ProbeResult(tasks[t])}

C2_OneRecordPerRow ==
    HandedToWriteCSV =>
        /\ Len(finalResults) = Len(rows)
        /\ \A i \in 1..Len(rows) :
              /\ Cardinality(RecordsOfRow(i)) = 1
              /\ \A j \in RecordsOfRow(i) :
                    /\ RecordIdOf(finalResults[j]) = Get(rows[i], IdKey(pipeline))
                    /\ finalResults[j].url = Get(rows[i], UrlKey(pipeline))

\* A run with a partial last batch, a URL that failed and one that did not.
C2_Witness ==
    /\ HandedToWriteCSV
    /\ pipeline = "batch" /\ limit >= 2 /\ Len(rows) % limit # 0
    /\ \E j \in 1..Len(finalResults) : finalResults[j].isShopify = Bool(FALSE)
    /\ \E j \in 1..Len(finalResults) : finalResults[j].isPasswordProtected = Bool(TRUE)

(***************************************************************************)
(* C3.  processURL never rejects: whatever value it is passed as url, an   *)
(* absent or empty URL cell included, and however each request ends, it    *)
(* resolves to three booleans.                                             *)
(***************************************************************************)
C3_ProcessURLIsTotal ==
    \A t \in Created :
        /\ tasks[t].pc # "rejected"
        /\ tasks[t].pc = "resolved" =>
              /\ tasks[t].value[1].isShopify \in {Bool(FALSE), Bool(TRUE)}
              /\ tasks[t].value[1].isActive \in {Bool(FALSE), Bool(TRUE)}
              /\ tasks[t].value[1].isPasswordProtected \in {Bool(FALSE), Bool(TRUE)}

(***************************************************************************)
(* C4.  isActive is never true while isShopify is false, and checkURL is   *)
(* never called for a URL that isShopifyStore found not to be Shopify.     *)
(***************************************************************************)
C4_ActiveOnlyIfShopify ==
    \A t \in Created :
        /\ tasks[t].isActive => tasks[t].isShopify
        /\ CallsOf(t, "checkURL") # {} => tasks[t].isShopify
        /\ tasks[t].pc = "resolved" =>
              (tasks[t].value[1].isActive = Bool(TRUE)
                  => tasks[t].value[1].isShopify = Bool(TRUE))

\* A URL found not to be Shopify after a GET that succeeded, resolved with
\* that single call.
C4_Witness ==
    \E t \in Created :
        /\ tasks[t].pc = "resolved" /\ ~tasks[t].isShopify
        /\ Len(tasks[t].calls) = 1
        /\ tasks[t].calls[1].state = "returned"
        /\ tasks[t].calls[1].value[1].status = 200

(***************************************************************************)
(* C5.  isPasswordProtected is never true while isActive is false, and     *)
(* checkPasswordProtection is never called for a URL that checkURL found   *)
(* not to be active.                                                       *)
(***************************************************************************)
C5_ProtectedOnlyIfActive ==
    \A t \in Created :
        /\ tasks[t].isPasswordProtected => tasks[t].isActive
        /\ CallsOf(t, "checkPasswordProtection") # {} => tasks[t].isActive
        /\ tasks[t].pc = "resolved" =>
              (tasks[t].value[1].isPasswordProtected = Bool(TRUE)
                  => tasks[t].value[1].isActive = Bool(TRUE))

\* A Shopify store whose liveness GET failed, resolved without stage 3.
C5_Witness ==
    \E t \in Created :
        /\ tasks[t].pc = "resolved" /\ tasks[t].isShopify /\ ~tasks[t].isActive
        /\ Len(tasks[t].calls) = 2
        /\ tasks[t].calls[2].state = "threw"

(***************************************************************************)
(* C6.  One axiosRetry call issues at most retries GETs, issues none after *)
(* a GET that succeeded and returns that response, and when retries GETs   *)
(* have all failed it throws the error of the last one: it neither goes on *)
(* to a further attempt nor ends any other way.                            *)
(***************************************************************************)
AllFailed(attempts) == \A a \in 1..Len(attempts) : Failed(attempts[a])

C6_RetryCapExact ==
    \A t \in Created : \A k \in RetryCalls(t) :
        LET c == tasks[t].calls[k]
            n == Len(c.attempts)
        IN  /\ c.issued <= retries
            /\ n <= c.issued
            /\ \A a \in 1..(n - 1) : Failed(c.attempts[a])
            /\ c.issued > n => AllFailed(c.attempts)
            /\ c.state = "returned" =>
                  /\ c.issued = n
                  /\ ~Failed(c.attempts[n])
                  /\ c.value = <<c.attempts[n]>>
            /\ (n = retries /\ AllFailed(c.attempts)) =>
                  /\ c.state = "threw"
                  /\ c.value = <<c.attempts[retries]>>
            /\ c.state = "threw" => (n = retries /\ AllFailed(c.attempts))
            /\ c.state # "fellThrough"

\* A call that threw after two different failures, only the first of which
\* carried the platform header.
C6_Witness ==
    \E t \in Created : \E k \in RetryCalls(t) :
        LET c == tasks[t].calls[k]
        IN  /\ c.state = "threw"
            /\ c.attempts[1].poweredBy
            /\ ~c.attempts[2].poweredBy

(***************************************************************************)
(* C7.  One processURL call issues at most 3 x 2 = 6 GETs over its three   *)
(* stages, and it terminates once each request settles: the deliveries     *)
(* (responses, errors, timers) it consumes are bounded, and until it has   *)
(* finished it waits for exactly one outstanding request or timer.         *)
(***************************************************************************)
Delivered(task) ==
    LET n == Len(task.calls)
        d(k) == IF n >= k
                THEN Len(task.calls[k].attempts) + Len(task.calls[k].waits)
                     - (IF task.calls[k].state = "sleeping" THEN 1 ELSE 0)
                ELSE 0
    IN  d(1) + d(2) + d(3)

C7_BoundedAttempts ==
    \A t \in Created :
        /\ Issued(tasks[t]) <= 6
        /\ Delivered(tasks[t]) <= 2 * 6
        /\ Len(tasks[t].calls) <= 3
        /\ tasks[t].pc = "get" =>
              /\ CurrentCall(tasks[t]).state = "pending"
              /\ CurrentCall(tasks[t]).issued = Len(CurrentCall(tasks[t]).attempts) + 1
        /\ tasks[t].pc = "backoff" =>
              /\ CurrentCall(tasks[t]).state = "sleeping"
              /\ CurrentCall(tasks[t]).issued = Len(CurrentCall(tasks[t]).attempts)
        /\ tasks[t].pc = "resolved" =>
              CurrentCall(tasks[t]).state \in {"returned", "threw"}
        /\ tasks[t].pc \in {"get", "backoff", "resolved", "rejected"}

\* The longest classification: both retried stages use both attempts and the
\* password stage runs.
C7_Witness ==
    \E t \in Created :
        /\ tasks[t].pc = "resolved"
        /\ Issued(tasks[t]) = 2 * retries + 1

(***************************************************************************)
(* C8.  On a network whose answers are a function of the URL and of the    *)
(* ordinal of the request within the classification, every classification  *)
(* resolves to the ProbeResult that the same URL gets when classified      *)
(* alone, whatever the limit (1 or the pipeline's own) and however the     *)
(* classifications in flight interleave.                                   *)
(***************************************************************************)
RECURSIVE RunAlone(_)
RunAlone(task) ==
    IF task.pc \in {"resolved", "rejected"} THEN task
    ELSE LET c == CurrentCall(task)
             o == IF Len(task.url) < 2 THEN NoResponse
                  ELSE FixedNet(task.url, Issued(task))
         IN  RunAlone(IF task.pc = "backoff" THEN Advance(task, AxiosRetryWake(c))
                      ELSE IF c.fn = "checkPasswordProtection"
                      THEN Advance(task, AxiosGetSettle(c, o))
                      ELSE Advance(task, AxiosRetrySettle(c, o)))

Alone(task) == RunAlone(Enter(NewTask(task.row, task.arg, task.closure)))

C8_SameResultAtAnyLimit ==
    netMode = "fixed" =>
        \A t \in Created :
            /\ tasks[t].pc = "resolved" =>
                  /\ Alone(tasks[t]).pc = "resolved"
                  /\ ProbeOf(tasks[t].value[1]) = ProbeResult(Alone(tasks[t]))
            /\ tasks[t].pc = "rejected" => Alone(tasks[t]).pc = "rejected"

\* A classification that needed retries resolved while another one, of a
\* different URL, was in flight next to it.
C8_Witness ==
    /\ limit >= 2
    /\ \E t \in Created : \E u \in InFlight :
          /\ tasks[t].pc = "resolved"
          /\ Issued(tasks[t]) = 5
          /\ tasks[u].url # tasks[t].url
          /\ Issued(tasks[u]) >= 2

(***************************************************************************)
(* C9.  For a URL that contains the hosted-subdomain marker, platform      *)
(* detection issues no HTTP request and yields isShopify = true, whatever  *)
(* the network would answer.                                               *)
(***************************************************************************)
C9_MarkerShortCircuit ==
    \A t \in Created :
        (tasks[t].pc # "queued" /\ HasMarker(tasks[t].url)) =>
            /\ \A k \in CallsOf(t, "isShopifyStore") : tasks[t].calls[k].issued = 0
            /\ (Len(tasks[t].calls) >= 2 \/ tasks[t].pc = "resolved") => tasks[t].isShopify

(***************************************************************************)
(* C10.  Under fair scheduling every run of processCSV eventually calls    *)
(* writeCSV with a Record for every input row and completes; nothing that  *)
(* happens to a single URL aborts the run.                                 *)
(***************************************************************************)
C10_RunCompletes == <>(mainPc = "done" /\ Len(finalResults) = Len(rows))

(***************************************************************************)
(* C13.  Within one axiosRetry call the waits are linear: after failed     *)
(* attempt i (counted from 1) that is not the last, exactly one wait of    *)
(* backoff x i is slept, and attempt i + 1 is issued only once that wait   *)
(* has been started and has elapsed; no wait follows an attempt that       *)
(* succeeded or the last failed attempt.                                   *)
(***************************************************************************)
C13_LinearBackoff ==
    \A t \in Created : \A k \in RetryCalls(t) :
        LET c == tasks[t].calls[k]
            n == Len(c.attempts)
            w == Len(c.waits)
        IN  /\ \A i \in 1..w : /\ c.waits[i] = backoff * i
                                /\ i <= n /\ Failed(c.attempts[i])
                                /\ i < retries
            /\ c.issued <= w + 1
            /\ c.state = "sleeping" => (w = n /\ c.issued = n)
            /\ c.state = "pending" => (w = n /\ c.issued = n + 1)
            /\ c.state = "returned" => w = n - 1
            /\ c.state = "threw" => (w = n - 1 /\ n = retries)

\* A call that slept once between its two failed attempts and threw after
\* the second without a further wait.
C13_Witness ==
    \E t \in Created : \E k \in RetryCalls(t) :
        LET c == tasks[t].calls[k]
        IN  /\ c.state = "threw"
            /\ Len(c.attempts) = 2
            /\ c.waits = <<backoff>>

(***************************************************************************)
(* C14.  As claimed: whenever the platform-detection request of a URL ends *)
(* in an HTTP 404 response, whatever headers that response carries, the    *)
(* classification has isShopify = false and never evaluates liveness.      *)
(***************************************************************************)
EndsIn404(t) ==
    /\ Len(tasks[t].calls) >= 1
    /\ tasks[t].calls[1].state = "threw"
    /\ tasks[t].calls[1].value[1].kind = "errResp"
    /\ tasks[t].calls[1].value[1].status = 404

C14_NotFoundIsNotShopify ==
    \A t \in Created :
        EndsIn404(t) => (~tasks[t].isShopify /\ CallsOf(t, "checkURL") = {})

(***************************************************************************)
(* C14, amended.  Whenever the platform-detection request of a URL ends in *)
(* an HTTP 404 response, isShopify is true exactly when that response      *)
(* carries a powered-by header naming Shopify; without the header the      *)
(* classification resolves to all-false, liveness is never evaluated and   *)
(* no further request is made, whether or not the URL holds a marker.      *)
(***************************************************************************)
C14_NotFoundUnlessPoweredBy ==
    \A t \in Created :
        EndsIn404(t) =>
            LET error == tasks[t].calls[1].value[1]
            IN  /\ tasks[t].isShopify = error.poweredBy
                /\ ~error.poweredBy =>
                      /\ tasks[t].pc = "resolved"
                      /\ Len(tasks[t].calls) = 1
                      /\ ~tasks[t].isActive /\ ~tasks[t].isPasswordProtected
                /\ error.poweredBy => Len(tasks[t].calls) >= 2

\* A marker URL whose detection request ended in a 404 without the header.
C14_Witness ==
    \E t \in Created :
        /\ EndsIn404(t)
        /\ ~tasks[t].calls[1].value[1].poweredBy
        /\ HasMarker(tasks[t].url)
        /\ tasks[t].pc = "resolved"

(***************************************************************************)
(* C15.  As claimed: for every active Shopify URL whose password-gate      *)
(* request returns 200 without a redirect (the final URL is the requested  *)
(* URL), whatever the requested URL and the response body, the             *)
(* classification has isActive = true and isPasswordProtected = false.     *)
(***************************************************************************)
NotRedirected(response) == response.final \in {"same", "absent"}

C15_NoRedirectNotProtected ==
    \A t \in Created : \A k \in CallsOf(t, "checkPasswordProtection") :
        LET c == tasks[t].calls[k]
        IN  (c.state = "returned" /\ c.value[1].status = 200
                /\ NotRedirected(c.value[1])) =>
                (tasks[t].isActive /\ ~tasks[t].isPasswordProtected)

(***************************************************************************)
(* C18.  The batching scheduler of checkStores.js runs its batches one     *)
(* after the other: while a classification of a batch is in flight no row  *)
(* is admitted and no classification of the next batch starts; the results *)
(* of a batch are appended to the results before the first task of the     *)
(* next batch begins; and the buffer is empty when a new batch begins, so  *)
(* that it only ever holds the rows read since the last batch was started. *)
(***************************************************************************)
C18_BetweenBatches ==
    (pipeline = "batch" /\ mainPc = "reading") =>
        /\ InFlight = {}
        /\ Len(results) = Len(tasks)
        /\ \A t \in Created : tasks[t].value = <<results[t]>>
        /\ Len(batch) = nread - Len(tasks)
        /\ \A k \in 1..Len(batch) : batch[k].row = Len(tasks) + k

C18_BatchStep ==
    pipeline = "batch" =>
        /\ (nread' # nread \/ Len(tasks') > Len(tasks)) =>
              /\ InFlight = {}
              /\ Len(results) = Len(tasks)
              /\ \A t \in Created : tasks[t].value = <<results[t]>>
        /\ (mainPc = "awaitBatch" /\ mainPc' = "reading") =>
              /\ batch' = <<>>
              /\ Len(results') = Len(tasks)
        /\ \A t \in 1..Len(tasks') :
              t > Len(tasks) => \A u \in Created : tasks[u].row # tasks'[t].row

C18_BatchesInSequence == [](C18_BetweenBatches) /\ [][C18_BatchStep]_vars

\* The second batch is in flight, after the two results of the first batch
\* have been appended.
C18_Witness ==
    /\ pipeline = "batch" /\ limit = BatchLimit /\ limit >= 2
    /\ Len(tasks) = limit + 1 /\ Len(results) = limit
    /\ tasks[limit + 1].pc = "get"
    /\ batch = <<[url |-> Get(rows[limit + 1], "URL"),
                  clientId |-> Get(rows[limit + 1], "ClientId"),
                  row |-> limit + 1]>>

(***************************************************************************)
(* C19.  In both pipelines the Records handed to writeCSV are in input-row *)
(* order: the Record at position j is the one resolved by the              *)
(* classification of row j and carries the identifier cell of row j,       *)
(* whatever the order in which the classifications completed.              *)
(***************************************************************************)
C19_RecordsInRowOrder ==
    HandedToWriteCSV =>
        \A j \in 1..Len(finalResults) :
            /\ j <= Len(rows)
            /\ RecordIdOf(finalResults[j]) = Get(rows[j], IdKey(pipeline))
            /\ \E t \in Created : /\ tasks[t].row = j
                                  /\ tasks[t].value = <<finalResults[j]>>

\* A run at the pipeline's limit in which the first row needed more
\* requests than the second, so that the second could complete first.
C19_Witness ==
    /\ HandedToWriteCSV
    /\ limit >= 2
    /\ Len(finalResults) >= 2
    /\ Issued(tasks[1]) > Issued(tasks[2])
    /\ tasks[1].row = 1 /\ tasks[2].row = 2

(***************************************************************************)
(* C17.  Every input row is classified exactly once: processURL is never   *)
(* invoked twice for a row and, once the run has come to rest, has been    *)
(* invoked for every row.  Within one classification each stage is invoked *)
(* at most once, in the order isShopifyStore, checkURL,                    *)
(* checkPasswordProtection, a later stage only after the earlier one has   *)
(* returned, and no stage is run again after it failed.                    *)
(***************************************************************************)
StageOrder == <<"isShopifyStore", "checkURL", "checkPasswordProtection">>

TasksOfRow(i) == {t \in Created : tasks[t].row = i}

\* Nothing is left to run: processCSV has returned or rejected and no
\* request, timer or queued task remains, or the process has died.
AtRest ==
    \/ mainPc \in {"done", "aborted"} /\ InFlight = {} /\ queue = <<>>
    \/ mainPc = "crashed"

C17_NeverRerun ==
    /\ \A i \in 1..Len(rows) : Cardinality(TasksOfRow(i)) <= 1
    /\ \A t \in Created :
          /\ Len(tasks[t].calls) <= Len(StageOrder)
          /\ \A k \in 1..Len(tasks[t].calls) :
                /\ tasks[t].calls[k].fn = StageOrder[k]
                /\ k < Len(tasks[t].calls) =>
                      tasks[t].calls[k].state \in {"returned", "threw"}
          /\ Finished(t) => tasks[t].calls = <<>> \/ CurrentCall(tasks[t]).state
                                                      \in {"returned", "threw"}

C17_NeverSkipped ==
    AtRest => \A i \in 1..Len(rows) :
                  \E t \in TasksOfRow(i) : tasks[t].pc # "queued"

C17_ClassifiedExactlyOnce == C17_NeverRerun /\ C17_NeverSkipped

(***************************************************************************)
(* C11.  In part_000 an input row that lacks a URL or an id is never       *)
(* classified: processURL is not invoked for it and no Record of it is     *)
(* handed to writeCSV and its metrics; the row is copied verbatim to the   *)
(* report, and its presence does not keep the run from producing the       *)
(* report.                                                                 *)
(***************************************************************************)
\* if (!data['Website URL'] || !data['Record ID'])
Lacking(data) ==
    ~Truthy(Get(data, "Website URL")) \/ ~Truthy(Get(data, "Record ID"))

Verbatim(data) == [c \in 1..Len(Keys(data)) |-> data[Keys(data)[c]].val]

C11_LackingRowsPassedThrough ==
    pipeline = "gate" =>
        \A i \in 1..Len(rows) :
            Lacking(rows[i]) =>
                /\ \A t \in TasksOfRow(i) : tasks[t].pc = "queued"
                /\ \A j \in 1..Len(finalResults) :
                      \A t \in TasksOfRow(i) : tasks[t].value # <<finalResults[j]>>
                /\ mainPc = "done" =>
                      /\ report.metrics.totalStores < Len(rows)
                      /\ \E r \in 1..Len(report.extraRows) :
                            report.extraRows[r] = Verbatim(rows[i])
                /\ mainPc \notin {"aborted", "crashed"}

(***************************************************************************)
(* C20.  In part_000 the isShopify, isActive and isPasswordProtected       *)
(* values of every Record are the values processURL returned for it, and   *)
(* its recordId and url are the id and URL cells read from the row,        *)
(* whatever the names of the passthrough columns of the row.               *)
(***************************************************************************)
C20_PassthroughOverwritesNothing ==
    pipeline = "gate" =>
        \A t \in Created :
            tasks[t].pc = "resolved" =>
                LET rec == tasks[t].value[1]
                    result == ProbeResult(tasks[t])
                IN  /\ Same(rec.isShopify, result.isShopify)
                    /\ Same(rec.isActive, result.isActive)
                    /\ Same(rec.isPasswordProtected, result.isPasswordProtected)
                    /\ Same(rec.recordId, tasks[t].closure.recordId)
                    /\ Same(rec.url, tasks[t].closure.url)

(***************************************************************************)
(* C12.  In both pipelines the metrics that writeCSV computes from the     *)
(* Records it was handed satisfy activeStores + inactiveStores =           *)
(* totalStores and shopifyStores >= activeStores >=                        *)
(* passwordProtectedStores.                                                *)
(***************************************************************************)
C12_MetricsConsistent ==
    mainPc = "done" =>
        LET m == report.metrics
        IN  /\ m.totalStores = Len(finalResults)
            /\ m.activeStores + m.inactiveStores = m.totalStores
            /\ m.shopifyStores >= m.activeStores
            /\ m.activeStores >= m.passwordProtectedStores

(***************************************************************************)
(* C16.  In part_000 every passthrough cell of every classified row,       *)
(* whatever the name of its column and however many the row has, is in the *)
(* output line of that row, under the column of its name and with its      *)
(* value unchanged.                                                        *)
(***************************************************************************)
C16_PassthroughPreserved ==
    (pipeline = "gate" /\ mainPc = "done") =>
        \A j \in 1..Len(finalResults) :
            \A k \in DOMAIN rows[j] \ {"Website URL", "Record ID"} :
                \E c \in 1..Len(report.headers) :
                    /\ report.headers[c] = k
                    /\ report.lines[j][c] = rows[j][k].val

====
